---- MODULE Spec2Model ----
(***************************************************************************)
(* Model of pairbus.py: the bulk hospital upload service.                  *)
(*                                                                         *)
(* Text is modelled as sequences of one-character strings, so that strip() *)
(* and lower() are computed and not assumed.  An uploaded file is a        *)
(* filename and a content; the content is the sequence of rows csv.reader  *)
(* yields for it (each row a sequence of cells, a blank line the empty     *)
(* row).  Time is a logical clock that advances with every remote call.    *)
(*                                                                         *)
(* One POST /hospitals/bulk request is served at a time: the handler has   *)
(* no await after the upload is read.  process_hospitals is cut into the   *)
(* steps between which batch_data or a list it refers to changes, and a    *)
(* status query may read the store between any two of them, as a reader    *)
(* on another thread would.  A list is an object on the heap, so that two  *)
(* names of one list (line 190) see each other's changes.  Batch ids are   *)
(* fresh (uuid4), and a 2xx answer to a create call is a JSON object whose *)
(* id, when it has one, is an integer.                                     *)
(***************************************************************************)
EXTENDS Integers, Sequences, FiniteSets, TLC

\* ------------------------------------------------------------------ bounds
\* Largest number of lines after the header line in an enumerated upload.
MaxRows == 2
\* Number of batch ids generate_batch_id hands out in one run.
MaxBatches == 1
MaxValidations == 2

\* --------------------------------------------------------- program constants
MAX_CSV_SIZE == 20

ALLOWED_EXTENSIONS == { <<"c", "s", "v">> }

\* Optional values: None is the empty tuple, a present value x is <<x>>.
None == <<>>
Some(x) == <<x>>

\* ------------------------------------------------------------------- text
Upper == <<"A", "B", "C", "D", "E", "H", "M", "N", "R", "S", "V", "X", "Y">>
Lower == <<"a", "b", "c", "d", "e", "h", "m", "n", "r", "s", "v", "x", "y">>

\* str.lower() on one character
LowerChar(c) ==
    IF \E k \in 1..Len(Upper) : Upper[k] = c
    THEN Lower[CHOOSE k \in 1..Len(Upper) : Upper[k] = c]
    ELSE c

\* str.lower()
StrLower(s) == [k \in 1..Len(s) |-> LowerChar(s[k])]

IsSpace(c) == c = " "

RECURSIVE LStrip(_)
LStrip(s) == IF s # <<>> /\ IsSpace(Head(s)) THEN LStrip(Tail(s)) ELSE s

RECURSIVE RStrip(_)
RStrip(s) ==
    IF s # <<>> /\ IsSpace(s[Len(s)]) THEN RStrip(SubSeq(s, 1, Len(s) - 1)) ELSE s

\* str.strip()
Strip(s) == RStrip(LStrip(s))

\* largest index of "." in s, 0 when there is none
LastDot(s) ==
    IF \E k \in 1..Len(s) : s[k] = "."
    THEN CHOOSE k \in 1..Len(s) : s[k] = "." /\ \A j \in (k+1)..Len(s) : s[j] # "."
    ELSE 0

\* filename.rsplit('.', 1)[1]
Extension(s) == SubSeq(s, LastDot(s) + 1, Len(s))

allowed_file(filename) ==
    /\ LastDot(filename) # 0
    /\ StrLower(Extension(filename)) \in ALLOWED_EXTENSIONS

\* ------------------------------------------------------------- the parser
S_name == <<"n", "a", "m", "e">>
S_address == <<"a", "d", "d", "r", "e", "s", "s">>
S_phone == <<"p", "h", "o", "n", "e">>

required_headers == {S_name, S_address}

\* content.strip() is empty: no commas and nothing but white space
ContentIsBlank(content) ==
    \A k \in 1..Len(content) :
        \/ content[k] = <<>>
        \/ Len(content[k]) = 1 /\ Strip(content[k][1]) = <<>>

\* csv.DictReader.fieldnames: the first row of the reader, None without one
Fieldnames(content) == IF content = <<>> THEN None ELSE Some(content[1])

\* row.get(key, '') on the dict DictReader builds from zip(fieldnames, row):
\* the last column whose header cell is exactly key; restval None where the
\* row is shorter than the header; '' where no header cell is key.
RowGet(fieldnames, row, key) ==
    LET cols == {k \in 1..Len(fieldnames) : fieldnames[k] = key}
    IN  IF cols = {} THEN Some(<<>>)
        ELSE LET c == CHOOSE k \in cols : \A j \in cols : j <= k
             IN  IF c <= Len(row) THEN Some(row[c]) ELSE None

\* the loop of read_csv_file over the rows after the header row; rows is what
\* is left to read, row_count the rows counted so far
RECURSIVE ReadRows(_, _, _, _)
ReadRows(fieldnames, rows, row_count, hospitals) ==
    IF rows = <<>> THEN [kind |-> "ok", hospitals |-> hospitals]
    ELSE IF Head(rows) = <<>>
    THEN ReadRows(fieldnames, Tail(rows), row_count, hospitals)
    ELSE
    LET n == row_count + 1
        rawname == RowGet(fieldnames, Head(rows), S_name)
        rawaddress == RowGet(fieldnames, Head(rows), S_address)
        rawphone == RowGet(fieldnames, Head(rows), S_phone)
    IN  IF rawname = None \/ rawaddress = None \/ rawphone = None
        THEN [kind |-> "AttributeError"]
        ELSE
        LET name == Strip(rawname[1])
            address == Strip(rawaddress[1])
            phone == Strip(rawphone[1])
        IN  IF name = <<>>
            THEN [kind |-> "ValueError", row |-> n, msg |-> "Row n: Name is required"]
            ELSE IF address = <<>>
            THEN [kind |-> "ValueError", row |-> n, msg |-> "Row n: Address is required"]
            ELSE ReadRows(fieldnames, Tail(rows), n,
                     Append(hospitals,
                         [name |-> name,
                          address |-> address,
                          phone |-> IF phone # <<>> THEN Some(phone) ELSE None,
                          row_number |-> n]))

read_csv_file(content) ==
    IF ContentIsBlank(content)
    THEN [kind |-> "ValueError", row |-> 0, msg |-> "CSV file is empty"]
    ELSE IF Fieldnames(content) = None \/ Fieldnames(content) = Some(<<>>)
    THEN [kind |-> "ValueError", row |-> 0, msg |-> "CSV file has no headers"]
    ELSE
    LET fieldnames == Fieldnames(content)[1]
        headers == {StrLower(Strip(fieldnames[k])) : k \in 1..Len(fieldnames)}
    IN  IF ~ (required_headers \subseteq headers)
        THEN [kind |-> "ValueError", row |-> 0, msg |-> "Missing required headers"]
        ELSE ReadRows(fieldnames, Tail(content), 0, <<>>)

\* ------------------------------------------------------------ the uploads
H_full == <<S_name, S_address, S_phone>>
H_min == <<S_name, S_address>>
H_variant == << <<" ", "N", "a", "m", "e">>, <<"A", "D", "D", "R", "E", "S", "S", " ">> >>
H_noaddr == <<S_name, S_phone>>
H_blank == <<>>
\* header rows with both required columns, and header rows without
GoodHeaders == {H_full, H_min, H_variant}
BadHeaders == {H_noaddr, H_blank}

R_a == << <<"A">>, <<"X">> >>
R_b == << <<" ", "B", " ">>, <<"Y">>, <<"5">> >>
R_noname == << <<" ">>, <<"X">>, <<>> >>
R_noaddr == << <<"A">>, <<>>, <<>> >>
R_blank == <<>>
DataRows == {R_a, R_b, R_noname, R_noaddr, R_blank}

RowSeqs(n) == UNION {[1..k -> DataRows] : k \in 0..n}

\* a header row and n well-formed data rows
LongContent(n) == <<H_min>> \o [k \in 1..n |-> IF k % 2 = 1 THEN R_a ELSE R_b]

Contents ==
    {<<>>}
    \cup {<<h>> \o rows : h \in GoodHeaders, rows \in RowSeqs(MaxRows)}
    \cup {<<h>> \o rows : h \in BadHeaders, rows \in RowSeqs(1)}
    \cup {LongContent(MAX_CSV_SIZE + 1)}

F_csv == <<"h", ".", "c", "s", "v">>
F_CSV == <<"h", ".", "C", "S", "V">>
F_txt == <<"h", ".", "t", "x", "t">>
F_nodot == <<"c", "s", "v">>
F_none == <<>>

Uploads ==
    {[filename |-> F_csv, content |-> c] : c \in Contents}
    \cup {[filename |-> f, content |-> <<H_min, R_a>>] : f \in {F_CSV, F_txt, F_nodot, F_none}}

\* what the remote registry answers to a create call: a 2xx response whose
\* JSON carries an id, a 2xx response whose JSON carries none, or a failure
\* (RequestException)
Modes == {"ok", "noid", "fail"}

\* ------------------------------------------------------------------ state
VARIABLES
    batch_data,        \* the module-level dict: batch id -> entry
    heap,              \* the list objects; a list is named by its index here
    pc,                \* where the one request being served stands
    upload,            \* the file of the request being served or served last
    hospitals, batch_id, results, processed_count, failed_count,
    idx,               \* position of the for loops of process_hospitals
    result,            \* the dict built for the current row
    batch_activated, start_time, processing_time,
    calls,             \* the remote calls made so far, each with whether it
                       \* succeeded
    now,               \* the clock
    ids,               \* batch ids generated so far
    response,          \* what POST /hospitals/bulk answered the last request,
                       \* NoResponse while the request is being served
    status_response,   \* what GET /hospitals/batch/{id}/status answered last
    validations        \* the validate-only requests answered so far, each
                       \* with its file and its answer

locals == <<hospitals, batch_id, results, processed_count, failed_count, idx,
            result, batch_activated, start_time, processing_time>>
remote == <<calls, now>>
vars == <<batch_data, heap, pc, upload, locals, remote, ids, response, status_response, validations>>

NoResult == [row |-> 0, name |-> <<>>, hospital_id |-> None, status |-> "",
             error_message |-> None]

NoUpload == [filename |-> <<>>, content |-> <<>>]

NoResponse == [row |-> 0, code |-> 0, detail |-> "", body |-> None]

NoStatus == [batch_id |-> 0, batch_activated |-> FALSE, start_time |-> None,
             status |-> "", code |-> 0, progress |-> 0, total_hospitals |-> 0,
             processed_hospitals |-> 0, failed_hospitals |-> 0,
             end_time |-> None, processing_time_seconds |-> None]

Init ==
    /\ batch_data = <<>>
    /\ heap = <<>>
    /\ pc = "idle"
    /\ upload = NoUpload
    /\ hospitals = <<>>
    /\ batch_id = 0
    /\ results = 0
    /\ processed_count = 0
    /\ failed_count = 0
    /\ idx = 0
    /\ result = NoResult
    /\ batch_activated = FALSE
    /\ start_time = 0
    /\ processing_time = 0
    /\ calls = <<>>
    /\ now = 0
    /\ ids = 0
    /\ response = NoResponse
    /\ status_response = NoStatus
    /\ validations = <<>>

\* row is the row number the detail text names, 0 when it names none
HTTPException(status_code, detail) ==
    [row |-> 0, code |-> status_code, detail |-> detail, body |-> None]

\* dict.update on the entry of batch b
Update(b, entry) == [batch_data EXCEPT ![b] = entry]

\* ------------------------------------------------ POST /hospitals/bulk
\* line 258, as a plausible slip would have it: the limit is not enforced
TooMany_Unchecked(n) == FALSE

\* line 258
TooMany(n) == n > MAX_CSV_SIZE

\* What the handler does with an upload before it calls process_hospitals:
\* the answer it raises, or "process" with the parsed records.
Validate(file) ==
    IF file.filename = <<>> \/ ~ allowed_file(file.filename)
    THEN HTTPException(400, "Only CSV files are allowed")
    ELSE IF file.content = <<>>
    THEN HTTPException(400, "File is empty")
    ELSE
    LET parsed == read_csv_file(file.content)
    IN  IF parsed.kind = "ValueError"
        THEN [HTTPException(400, parsed.msg) EXCEPT !.row = parsed.row]
        \* None.strip() at lines 100-102, caught at line 279
        ELSE IF parsed.kind = "AttributeError"
        THEN HTTPException(500, "Internal error")
        \* the HTTPException(400) of lines 259 and 265 is raised inside the
        \* outer try and caught at line 279, which answers 500
        ELSE IF TooMany(Len(parsed.hospitals))
        THEN HTTPException(500, "Internal error: Too many hospitals")
        ELSE IF Len(parsed.hospitals) = 0
        THEN HTTPException(500, "Internal error: No valid hospital data found in CSV")
        ELSE [row |-> 0, code |-> 0, detail |-> "process",
              body |-> Some(parsed.hospitals)]

\* the uploads, each with what Validate makes of it
Requests == {<<file, Validate(file)>> : file \in Uploads}

\* the handler up to the call of process_hospitals, for an upload it rejects
BulkReject(file, verdict) ==
    /\ pc = "idle"
    /\ verdict.code # 0
    /\ upload' = file
    /\ response' = verdict
    /\ UNCHANGED <<batch_data, heap, pc, locals, remote, ids, status_response, validations>>

\* the handler up to the call of process_hospitals, for an upload it accepts
BulkAccept(file, verdict) ==
    /\ pc = "idle"
    /\ verdict.code = 0
    /\ ids < MaxBatches
    /\ ids' = ids + 1
    /\ batch_id' = ids + 1
    /\ hospitals' = verdict.body[1]
    /\ upload' = file
    /\ response' = NoResponse
    /\ pc' = "register"
    /\ UNCHANGED <<batch_data, heap, results, processed_count, failed_count, idx,
                   result, batch_activated, start_time, processing_time, remote,
                   status_response, validations>>

\* process_hospitals, lines 150-162
Register ==
    /\ pc = "register"
    /\ start_time' = now
    /\ heap' = heap \o << <<>>, <<>> >>
    /\ results' = Len(heap) + 1
    /\ processed_count' = 0
    /\ failed_count' = 0
    /\ batch_data' =
         [b \in DOMAIN batch_data \cup {batch_id} |->
            IF b = batch_id
            THEN [status |-> "processing",
                  total_hospitals |-> Len(hospitals),
                  processed_hospitals |-> 0,
                  failed_hospitals |-> 0,
                  start_time |-> Some(now),
                  results |-> Len(heap) + 2,
                  end_time |-> None,
                  processing_time_seconds |-> None,
                  batch_activated |-> None]
            ELSE batch_data[b]]
    /\ idx' = 1
    /\ pc' = "create"
    /\ UNCHANGED <<upload, hospitals, batch_id, result, batch_activated,
                   processing_time, remote, ids, response, status_response,
                   validations>>

\* the result dict of lines 168-173 and of lines 177-182
CreatedResult(hospital, id) ==
    [row |-> hospital.row_number, hospital_id |-> id, name |-> hospital.name,
     status |-> "created", error_message |-> None]

FailedResult(hospital) ==
    [row |-> hospital.row_number, hospital_id |-> None, name |-> hospital.name,
     status |-> "failed", error_message |-> Some("Failed to create hospital")]

\* line 174 with the counter set anew for every row
NextProcessed_Reset(m, count) == IF m = "fail" THEN 0 ELSE 1

\* line 174: processed_count after a create call that answered m
NextProcessed(m, count) == IF m = "fail" THEN count ELSE count + 1

\* line 183 forgotten
NextFailed_Forgotten(m, count) == count

\* line 183: failed_count after a create call that answered m
NextFailed(m, count) == IF m = "fail" THEN count + 1 ELSE count

\* lines 176-183 without the except clause: the failure leaves the loop
AfterCreate_Raised(m) == IF m = "fail" THEN "raised" ELSE "append"

\* lines 165-185: both branches of the try statement go on to line 185
AfterCreate(m) == "append"

\* process_hospitals, lines 165-183, with the create_hospital call
Create ==
    /\ pc = "create"
    /\ \E m \in Modes :
        /\ result' = IF m = "ok" THEN CreatedResult(hospitals[idx], Some(Len(calls) + 1))
                     ELSE IF m = "noid" THEN CreatedResult(hospitals[idx], None)
                     ELSE FailedResult(hospitals[idx])
        /\ processed_count' = NextProcessed(m, processed_count)
        /\ failed_count' = NextFailed(m, failed_count)
        /\ pc' = AfterCreate(m)
        /\ calls' = Append(calls, [op |-> "create", batch_id |-> batch_id,
                                   row |-> hospitals[idx].row_number, ok |-> m # "fail"])
    /\ now' = now + 1
    /\ UNCHANGED <<batch_data, heap, upload, hospitals, batch_id, results, idx,
                   batch_activated, start_time, processing_time, ids, response,
                   status_response, validations>>

\* line 185 moved into the try block: only a created row is recorded
Appended_CreatedOnly(list, r) == IF r.status = "failed" THEN list ELSE Append(list, r)

\* line 185: results.append(result)
Appended(list, r) == Append(list, r)

\* line 185 as results.insert(0, result): the newest outcome comes first
AppendResult_Front ==
    /\ pc = "append"
    /\ heap' = [heap EXCEPT ![results] = <<result>> \o @]
    /\ pc' = "update"
    /\ UNCHANGED <<batch_data, upload, locals, remote, ids, response,
                   status_response, validations>>

\* process_hospitals, line 185
AppendResult ==
    /\ pc = "append"
    /\ heap' = [heap EXCEPT ![results] = Appended(@, result)]
    /\ pc' = "update"
    /\ UNCHANGED <<batch_data, upload, locals, remote, ids, response,
                   status_response, validations>>

\* the loop of lines 164-191 with a retry: a row whose create call failed is
\* tried again
UpdateProgress_Retry ==
    /\ pc = "update"
    /\ batch_data' = Update(batch_id,
            [batch_data[batch_id] EXCEPT !.processed_hospitals = processed_count,
                                         !.failed_hospitals = failed_count,
                                         !.results = results])
    /\ idx' = IF result.status = "failed" THEN idx ELSE idx + 1
    /\ pc' = IF idx' <= Len(hospitals) THEN "create" ELSE "activate"
    /\ UNCHANGED <<heap, upload, hospitals, batch_id, results, processed_count,
                   failed_count, result, batch_activated, start_time, processing_time,
                   remote, ids, response, status_response, validations>>

\* process_hospitals, lines 187-191 and the loop header
UpdateProgress ==
    /\ pc = "update"
    /\ batch_data' = Update(batch_id,
            [batch_data[batch_id] EXCEPT !.processed_hospitals = processed_count,
                                         !.failed_hospitals = failed_count,
                                         !.results = results])
    /\ idx' = idx + 1
    /\ pc' = IF idx < Len(hospitals) THEN "create" ELSE "activate"
    /\ UNCHANGED <<heap, upload, hospitals, batch_id, results, processed_count,
                   failed_count, result, batch_activated, start_time, processing_time,
                   remote, ids, response, status_response, validations>>

\* line 194 without its condition
ShouldActivate_Always(failed) == TRUE

\* line 194
ShouldActivate(failed) == failed = 0

\* process_hospitals, lines 193-196, with the activate_batch call
Activate ==
    /\ pc = "activate"
    /\ \/ /\ ShouldActivate(failed_count)
          /\ \E ok \in BOOLEAN :
                /\ batch_activated' = ok
                /\ calls' = Append(calls, [op |-> "activate", batch_id |-> batch_id,
                                           row |-> 0, ok |-> ok])
          /\ now' = now + 1
       \/ /\ ~ ShouldActivate(failed_count)
          /\ batch_activated' = FALSE
          /\ UNCHANGED <<calls, now>>
    /\ idx' = 1
    /\ pc' = IF batch_activated' THEN "upgrade" ELSE "finish"
    /\ UNCHANGED <<batch_data, heap, upload, hospitals, batch_id, results,
                   processed_count, failed_count, result, start_time, processing_time,
                   ids, response, status_response, validations>>

\* lines 198-199 left out
Upgraded_Not(status) == status

\* lines 198-199
Upgraded(status) == IF status = "created" THEN "created_and_activated" ELSE status

\* process_hospitals, lines 197-199, one element of the loop
Upgrade ==
    /\ pc = "upgrade"
    /\ heap' = [heap EXCEPT ![results][idx].status = Upgraded(@)]
    /\ idx' = idx + 1
    /\ pc' = IF idx < Len(heap[results]) THEN "upgrade" ELSE "finish"
    /\ UNCHANGED <<batch_data, upload, hospitals, batch_id, results, processed_count,
                   failed_count, result, batch_activated, start_time,
                   processing_time, remote, ids, response, status_response,
                   validations>>

\* line 205 with its branches exchanged
FinalStatus_Inverted(failed) == IF failed = 0 THEN "partial_failure" ELSE "completed"

\* line 205
FinalStatus(failed) == IF failed = 0 THEN "completed" ELSE "partial_failure"

\* process_hospitals, lines 201-209
Finish ==
    /\ pc = "finish"
    /\ processing_time' = now - start_time
    /\ batch_data' = Update(batch_id,
            [batch_data[batch_id] EXCEPT
                !.status = FinalStatus(failed_count),
                !.end_time = Some(now),
                !.processing_time_seconds = Some(now - start_time),
                !.batch_activated = Some(batch_activated)])
    /\ pc' = "return"
    /\ UNCHANGED <<heap, upload, hospitals, batch_id, results, processed_count,
                   failed_count, idx, result, batch_activated, start_time, remote, ids,
                   response, status_response, validations>>

\* the return of the summary with a clean-up: the entry of the finished
\* batch is deleted from the store
Return_Cleanup ==
    /\ pc = "return"
    /\ response' =
         [row |-> 0, code |-> 200, detail |-> "",
          body |-> Some([batch_id |-> batch_id,
                         total_hospitals |-> Len(hospitals),
                         processed_hospitals |-> processed_count,
                         failed_hospitals |-> failed_count,
                         processing_time_seconds |-> processing_time,
                         batch_activated |-> batch_activated,
                         hospitals |-> heap[results]])]
    /\ pc' = "idle"
    /\ hospitals' = <<>>
    /\ batch_id' = 0
    /\ results' = 0
    /\ processed_count' = 0
    /\ failed_count' = 0
    /\ idx' = 0
    /\ result' = NoResult
    /\ batch_activated' = FALSE
    /\ start_time' = 0
    /\ processing_time' = 0
    /\ batch_data' = [b \in DOMAIN batch_data \ {batch_id} |-> batch_data[b]]
    /\ UNCHANGED <<heap, upload, remote, ids, status_response, validations>>

\* ------------------------------------ GET /hospitals/batch/{batch_id}/status
\* process_hospitals, lines 211-219, and the handler's line 271
Return ==
    /\ pc = "return"
    /\ response' =
         [row |-> 0, code |-> 200, detail |-> "",
          body |-> Some([batch_id |-> batch_id,
                         total_hospitals |-> Len(hospitals),
                         processed_hospitals |-> processed_count,
                         failed_hospitals |-> failed_count,
                         processing_time_seconds |-> processing_time,
                         batch_activated |-> batch_activated,
                         hospitals |-> heap[results]])]
    /\ pc' = "idle"
    /\ hospitals' = <<>>
    /\ batch_id' = 0
    /\ results' = 0
    /\ processed_count' = 0
    /\ failed_count' = 0
    /\ idx' = 0
    /\ result' = NoResult
    /\ batch_activated' = FALSE
    /\ start_time' = 0
    /\ processing_time' = 0
    /\ UNCHANGED <<batch_data, heap, upload, remote, ids, status_response, validations>>

\* ------------------------------------ GET /hospitals/batch/{batch_id}/status
\* round(num / den, 2) in hundredths
Round2(num, den) ==
    LET q == (100 * num) \div den
        r == (100 * num) % den
    IN  IF 2 * r < den THEN q
        ELSE IF 2 * r > den THEN q + 1
        ELSE IF q % 2 = 0 THEN q ELSE q + 1

\* lines 285-286 left out, the entry read with defaults: an unknown id is
\* answered as a batch that has not started
StatusOf_Lenient(b) ==
    IF b \notin DOMAIN batch_data
    THEN [NoStatus EXCEPT !.code = 200, !.batch_id = b, !.status = "processing"]
    ELSE LET data == batch_data[b]
         IN  [code |-> 200,
              batch_id |-> b,
              status |-> data.status,
              progress |-> IF data.total_hospitals > 0
                           THEN Round2(data.processed_hospitals + data.failed_hospitals,
                                       data.total_hospitals)
                           ELSE 0,
              total_hospitals |-> data.total_hospitals,
              processed_hospitals |-> data.processed_hospitals,
              failed_hospitals |-> data.failed_hospitals,
              start_time |-> data.start_time,
              end_time |-> data.end_time,
              processing_time_seconds |-> data.processing_time_seconds,
              batch_activated |-> IF data.batch_activated = None THEN FALSE
                                  ELSE data.batch_activated[1]]

\* lines 285-306
StatusOf(b) ==
    IF b \notin DOMAIN batch_data
    THEN [NoStatus EXCEPT !.code = 404, !.batch_id = b]
    ELSE LET data == batch_data[b]
         IN  [code |-> 200,
              batch_id |-> b,
              status |-> data.status,
              progress |-> IF data.total_hospitals > 0
                           THEN Round2(data.processed_hospitals + data.failed_hospitals,
                                       data.total_hospitals)
                           ELSE 0,
              total_hospitals |-> data.total_hospitals,
              processed_hospitals |-> data.processed_hospitals,
              failed_hospitals |-> data.failed_hospitals,
              start_time |-> data.start_time,
              end_time |-> data.end_time,
              processing_time_seconds |-> data.processing_time_seconds,
              batch_activated |-> IF data.batch_activated = None THEN FALSE
                                  ELSE data.batch_activated[1]]

get_batch_status(b) ==
    /\ status_response' = StatusOf(b)
    /\ UNCHANGED <<batch_data, heap, pc, upload, locals, remote, ids, response,
                   validations>>

\* ------------------------------------------- POST /hospitals/validate-csv
\* ValidationResponse, with the status code of the answer; a field the code
\* leaves out is None
ValidationResponse(valid, total_hospitals, exceeds_limit, error) ==
    [code |-> 200, total_hospitals |-> total_hospitals, valid |-> valid,
     exceeds_limit |-> exceeds_limit, error |-> error]

\* what validate_csv answers for a file
ValidationOf(file) ==
    IF file.filename = <<>> \/ ~ allowed_file(file.filename)
    THEN [code |-> 400, total_hospitals |-> None, valid |-> None,
          exceeds_limit |-> None, error |-> Some("Only CSV files are allowed")]
    ELSE
    LET parsed == read_csv_file(file.content)
    IN  IF parsed.kind = "ok"
        THEN ValidationResponse(Some(TRUE), Some(Len(parsed.hospitals)),
                                Some(Len(parsed.hospitals) > MAX_CSV_SIZE), None)
        ELSE IF parsed.kind = "ValueError"
        THEN ValidationResponse(Some(FALSE), None, None, Some(parsed.msg))
        ELSE [code |-> 500, total_hospitals |-> None, valid |-> None,
              exceeds_limit |-> None, error |-> Some("Internal error")]

\* the files sent to validate-only: one and twenty and twenty-one good rows,
\* a nameless second row, an empty file, a short row, a wrong file name
ValidateUploads ==
    {[filename |-> F_csv, content |-> c] :
        c \in {<<H_min, R_a>>, LongContent(MAX_CSV_SIZE),
               LongContent(MAX_CSV_SIZE + 1), <<H_min, R_a, R_noname>>,
               <<>>, <<H_full, R_a>>}}
    \cup {[filename |-> F_txt, content |-> <<H_min, R_a>>]}

ValidateRequests == {<<file, ValidationOf(file)>> : file \in ValidateUploads}

\* validate_csv with a parser that keeps its hospitals list between calls, as
\* a module-level list would: the records of earlier calls are counted again
validate_csv_Accumulating(file, answer) ==
    /\ Len(validations) < MaxValidations
    /\ validations' = Append(validations,
          [file |-> file,
           answer |-> IF answer.total_hospitals = None \/ validations = <<>>
                      THEN answer
                      ELSE [answer EXCEPT !.total_hospitals =
                              Some(@[1] + Len(validations))]])
    /\ UNCHANGED <<batch_data, heap, pc, upload, locals, remote, ids, response,
                   status_response>>

\* lines 308-349: the file is parsed and the verdict returned; nothing else
\* is read or written
validate_csv(file, answer) ==
    /\ Len(validations) < MaxValidations
    /\ validations' = Append(validations, [file |-> file, answer |-> answer])
    /\ UNCHANGED <<batch_data, heap, pc, upload, locals, remote, ids, response,
                   status_response>>

\* ------------------------------------------------------------------- spec
\* the steps of one call of process_hospitals
Processing ==
    \/ Register
    \/ Create
    \/ AppendResult
    \/ UpdateProgress
    \/ Activate
    \/ Upgrade
    \/ Finish
    \/ Return

Next ==
    \/ \E req \in Requests : BulkReject(req[1], req[2])
    \/ \E req \in Requests : BulkAccept(req[1], req[2])
    \/ Register
    \/ Create
    \/ AppendResult
    \/ UpdateProgress
    \/ Activate
    \/ Upgrade
    \/ Finish
    \/ Return
    \/ \E b \in 1..(MaxBatches + 1) : get_batch_status(b)

Spec == Init /\ [][Next]_vars

\* process_hospitals runs sequentially and every remote call it makes returns
\* (requests is called with a timeout), so a started batch keeps stepping
FairSpec == Spec /\ WF_vars(Processing)

\* the validate-only endpoint, served while batches are accepted and processed
ValidateNext ==
    \/ \E req \in ValidateRequests : validate_csv(req[1], req[2])
    \/ \E req \in Requests : BulkAccept(req[1], req[2])
    \/ Register
    \/ Create
    \/ AppendResult
    \/ UpdateProgress
    \/ Activate
    \/ Upgrade
    \/ Finish
    \/ Return

ValidateSpec == Init /\ [][ValidateNext]_vars

\* ----------------------------------------------------------------- claims
Terminal(b) == batch_data[b].status \in {"completed", "partial_failure"}

\* the outcomes sequence the store holds for batch b
Outcomes(b) == heap[batch_data[b].results]

\* the summary POST /hospitals/bulk returned last, when it returned one
HasSummary == response.code = 200
Summary == response.body[1]

CallsOf(b, op) == {k \in 1..Len(calls) : calls[k].batch_id = b /\ calls[k].op = op}

\* C1: when process_hospitals has finished, the number of outcomes equals
\* total and processed + failed equals total, in the returned summary and in
\* the entry stored under the batch id.
C1_CountsAddUp ==
    /\ HasSummary =>
          /\ Len(Summary.hospitals) = Summary.total_hospitals
          /\ Summary.processed_hospitals + Summary.failed_hospitals
                = Summary.total_hospitals
    /\ \A b \in DOMAIN batch_data :
          Terminal(b) =>
             /\ Len(Outcomes(b)) = batch_data[b].total_hospitals
             /\ batch_data[b].processed_hospitals + batch_data[b].failed_hospitals
                   = batch_data[b].total_hospitals

\* a batch of two rows, one created and one failed, has returned its summary
C1_Witness ==
    /\ HasSummary
    /\ Summary.processed_hospitals = 1
    /\ Summary.failed_hospitals = 1
    /\ Terminal(Summary.batch_id)

\* C2: a batch with a failed row never has activate called for its id, and
\* its activated flag is false in the store and in the summary; activated
\* true implies failed_count = 0.
C2_NoActivationAfterFailure ==
    /\ \A b \in DOMAIN batch_data :
          (batch_data[b].failed_hospitals > 0
             \/ \E k \in CallsOf(b, "create") : ~ calls[k].ok) =>
             /\ CallsOf(b, "activate") = {}
             /\ batch_data[b].batch_activated # Some(TRUE)
    /\ pc # "idle" /\ failed_count > 0 =>
          /\ CallsOf(batch_id, "activate") = {}
          /\ ~ batch_activated
    /\ HasSummary =>
          /\ Summary.failed_hospitals > 0 => ~ Summary.batch_activated
          /\ Summary.batch_activated => Summary.failed_hospitals = 0

\* a batch whose first row was created and whose second row failed is over
C2_Witness ==
    \E b \in DOMAIN batch_data :
        /\ Terminal(b)
        /\ batch_data[b].failed_hospitals = 1
        /\ batch_data[b].processed_hospitals = 1
        /\ HasSummary /\ Summary.batch_id = b

\* C3: a failed row does not end the batch: once the loop is over there is
\* one outcome per input record, and the i-th outcome carries the row number
\* and the name of the i-th record; during the loop the outcomes are those of
\* the records handled so far.
C3_OneOutcomePerRecord ==
    /\ pc \in {"create", "append", "update", "activate", "upgrade", "finish", "return"} =>
          /\ Len(heap[results]) <= Len(hospitals)
          /\ \A k \in 1..Len(heap[results]) :
                /\ heap[results][k].row = hospitals[k].row_number
                /\ heap[results][k].name = hospitals[k].name
    /\ pc = "create" => Len(heap[results]) = idx - 1
    /\ pc \in {"activate", "upgrade", "finish", "return"} =>
          Len(heap[results]) = Len(hospitals)
    /\ HasSummary =>
          \A k \in 1..Len(Summary.hospitals) : Summary.hospitals[k].row = k

\* the loop is over for two records of different names, the first of which
\* failed
C3_Witness ==
    /\ pc = "return"
    /\ Len(hospitals) = 2
    /\ hospitals[1].name # hospitals[2].name
    /\ heap[results][1].status = "failed"
    /\ heap[results][2].status # "failed"

\* C4: when every create call of a batch and its activate call succeeded,
\* a finished batch has every outcome at created_and_activated, activated
\* true and status completed, in the summary and in the store.
C4_AllActivated ==
    /\ \A b \in DOMAIN batch_data :
          (Terminal(b) /\ \E k \in CallsOf(b, "activate") : calls[k].ok) =>
             /\ batch_data[b].status = "completed"
             /\ batch_data[b].batch_activated = Some(TRUE)
             /\ \A k \in 1..Len(Outcomes(b)) :
                   Outcomes(b)[k].status = "created_and_activated"
    /\ (HasSummary /\ \E k \in CallsOf(Summary.batch_id, "activate") : calls[k].ok) =>
          /\ Summary.batch_activated
          /\ Summary.failed_hospitals = 0
          /\ \A k \in 1..Len(Summary.hospitals) :
                Summary.hospitals[k].status = "created_and_activated"

\* a batch of two created rows was activated and has returned
C4_Witness ==
    /\ HasSummary
    /\ Summary.total_hospitals = 2
    /\ \A k \in CallsOf(Summary.batch_id, "create") : calls[k].ok
    /\ \E k \in CallsOf(Summary.batch_id, "activate") : calls[k].ok

\* C5: in every state of the store, processed + failed of an entry equals the
\* length of its outcomes sequence.
C5_CountersMatchOutcomes ==
    \A b \in DOMAIN batch_data :
        batch_data[b].processed_hospitals + batch_data[b].failed_hospitals
            = Len(Outcomes(b))

\* C6: a batch registered with status processing reaches a terminal status and
\* its summary (a 200 answer, never an error) is returned, whatever the
\* create calls and the activate call answer.
C6_BatchCompletes ==
    \A b \in 1..MaxBatches :
        (b \in DOMAIN batch_data /\ batch_data[b].status = "processing")
           ~> (b \in DOMAIN batch_data /\ Terminal(b)
                  /\ HasSummary /\ Summary.batch_id = b)

\* a batch every row of which failed has returned its summary
C6_Witness ==
    /\ HasSummary
    /\ Summary.total_hospitals = 2
    /\ Summary.failed_hospitals = 2
    /\ Terminal(Summary.batch_id)

\* C7: the terminal status is completed exactly when failed_count = 0 and
\* partial_failure otherwise; when the activate call failed, the batch ends
\* completed, with activated false and every outcome still created.
C7_TerminalStatus ==
    \A b \in DOMAIN batch_data :
        /\ batch_data[b].status \in {"processing", "completed", "partial_failure"}
        /\ Terminal(b) =>
              /\ batch_data[b].status = "completed"
                    <=> batch_data[b].failed_hospitals = 0
              /\ batch_data[b].status = "partial_failure"
                    <=> batch_data[b].failed_hospitals > 0
              /\ (\E k \in CallsOf(b, "activate") : ~ calls[k].ok) =>
                    /\ batch_data[b].status = "completed"
                    /\ batch_data[b].batch_activated = Some(FALSE)
                    /\ \A k \in 1..Len(Outcomes(b)) : Outcomes(b)[k].status = "created"

\* a batch of created rows whose activate call failed is over
C7_Witness ==
    \E b \in DOMAIN batch_data :
        /\ Terminal(b)
        /\ batch_data[b].total_hospitals = 2
        /\ \E k \in CallsOf(b, "activate") : ~ calls[k].ok

\* C8: the counters of an entry never decrease, its total never changes and
\* the entry stays; two status queries for one batch in a row report counters
\* that do not decrease and the same total.
C8_MonotoneProgress ==
    [][/\ \A b \in DOMAIN batch_data :
            /\ b \in DOMAIN batch_data'
            /\ batch_data'[b].processed_hospitals >= batch_data[b].processed_hospitals
            /\ batch_data'[b].failed_hospitals >= batch_data[b].failed_hospitals
            /\ batch_data'[b].total_hospitals = batch_data[b].total_hospitals
       /\ (/\ status_response.code = 200
           /\ status_response'.code = 200
           /\ status_response'.batch_id = status_response.batch_id) =>
            /\ status_response'.processed_hospitals >= status_response.processed_hospitals
            /\ status_response'.failed_hospitals >= status_response.failed_hospitals
            /\ status_response'.processed_hospitals + status_response'.failed_hospitals
                  >= status_response.processed_hospitals + status_response.failed_hospitals
            /\ status_response'.total_hospitals = status_response.total_hospitals
      ]_vars

\* a status query answered while the first row was counted; the store has
\* since counted the second row
C8_Witness ==
    /\ status_response.code = 200
    /\ status_response.status = "processing"
    /\ status_response.processed_hospitals + status_response.failed_hospitals = 1
    /\ batch_data[status_response.batch_id].processed_hospitals
          + batch_data[status_response.batch_id].failed_hospitals = 2

\* the upload parses into more records than the limit allows (which takes
\* more rows than the limit, the test that is made first)
OverLimit(file) ==
    /\ Len(file.content) > MAX_CSV_SIZE
    /\ file.filename # <<>>
    /\ allowed_file(file.filename)
    /\ file.content # <<>>
    /\ read_csv_file(file.content).kind = "ok"
    /\ Len(read_csv_file(file.content).hospitals) > MAX_CSV_SIZE

\* C9: an upload of more records than the limit is rejected as a whole: the
\* request ends at once with an error, no remote call is made for it and the
\* store gains no entry.
C9_OverLimitRejected ==
    [][OverLimit(upload') =>
          /\ pc' = "idle"
          /\ response'.code \notin {0, 200}
          /\ <<upload, response>>' # <<upload, response>> =>
                 UNCHANGED <<batch_data, heap, calls, ids>>
      ]_vars

\* an upload of 21 rows was answered while the store held a finished batch
C9_Witness ==
    /\ OverLimit(upload)
    /\ response.code # 0
    /\ \E b \in DOMAIN batch_data : Terminal(b)

\* the upload fails input validation: file name, empty file, parser error,
\* more records than the limit, or no record
InvalidInput(file) ==
    \/ file.filename = <<>>
    \/ ~ allowed_file(file.filename)
    \/ file.content = <<>>
    \/ read_csv_file(file.content).kind = "ValueError"
    \/ /\ read_csv_file(file.content).kind = "ok"
       /\ \/ Len(read_csv_file(file.content).hospitals) > MAX_CSV_SIZE
          \/ Len(read_csv_file(file.content).hospitals) = 0

\* C10: every input-validation failure of POST /hospitals/bulk is answered
\* with status 400.
C10_ValidationIs400 ==
    (pc = "idle" /\ upload # NoUpload /\ InvalidInput(upload)) => response.code = 400

\* The columns of an input as section 4.1 of the design reads them: a header
\* cell names a column by its trimmed, lower-cased text; a cell a row does not
\* have is empty; blank lines are no data rows.
HeaderCol(fieldnames, key) ==
    LET cols == {k \in 1..Len(fieldnames) : StrLower(Strip(fieldnames[k])) = key}
    IN  IF cols = {} THEN 0 ELSE CHOOSE k \in cols : \A j \in cols : j <= k

CellAt(row, col) == IF col = 0 \/ col > Len(row) THEN <<>> ELSE Strip(row[col])

HasRequiredHeaders(content) ==
    /\ content # <<>>
    /\ HeaderCol(content[1], S_name) # 0
    /\ HeaderCol(content[1], S_address) # 0

IsDataRow(row) == row # <<>>

DataRowsOf(content) == SelectSeq(Tail(content), IsDataRow)

NameOf(content, k) == CellAt(DataRowsOf(content)[k], HeaderCol(content[1], S_name))
AddressOf(content, k) == CellAt(DataRowsOf(content)[k], HeaderCol(content[1], S_address))

\* the numbers of the data rows whose name or address is empty
BadRows(content) ==
    {k \in 1..Len(DataRowsOf(content)) :
        NameOf(content, k) = <<>> \/ AddressOf(content, k) = <<>>}

FirstBadRow(content) ==
    IF BadRows(content) = {} THEN 0
    ELSE CHOOSE k \in BadRows(content) : \A j \in BadRows(content) : k <= j

\* the upload reaches the parser with both required headers
Parsed(file) ==
    /\ file.filename # <<>>
    /\ allowed_file(file.filename)
    /\ file.content # <<>>
    /\ HasRequiredHeaders(file.content)

\* C11: an upload one of whose data rows has an empty name or address is
\* answered with the parser's error (status 400) naming the number of the
\* first such row, and without a summary.
C11_FirstBadRowNamed ==
    (pc = "idle" /\ upload # NoUpload /\ Parsed(upload)
        /\ FirstBadRow(upload.content) > 0) =>
       /\ response.code = 400
       /\ response.row = FirstBadRow(upload.content)
       /\ response.body = None

\* C12: an upload whose header cells are name and address up to letter case
\* and surrounding white space, and whose data rows all have a name and an
\* address, parses into one record per data row, with those values.
C12_HeadersMatchedLoosely ==
    (upload # NoUpload /\ Parsed(upload) /\ BadRows(upload.content) = {}) =>
       LET parsed == read_csv_file(upload.content)
       IN  /\ parsed.kind = "ok"
           /\ Len(parsed.hospitals) = Len(DataRowsOf(upload.content))
           /\ \A k \in 1..Len(parsed.hospitals) :
                 /\ parsed.hospitals[k].name = NameOf(upload.content, k)
                 /\ parsed.hospitals[k].address = AddressOf(upload.content, k)

\* C13: a validate-only call changes neither the Batch Store nor the remote
\* calls made, and it answers a file it has answered before with the same
\* status, validity, record count and exceeds-limit flag.
C13_ValidateOnlyPure ==
    [][validations' # validations =>
        /\ UNCHANGED <<batch_data, heap, calls, ids>>
        /\ LET last == validations'[Len(validations')]
           IN  \A k \in 1..Len(validations) :
                 validations[k].file = last.file =>
                    /\ validations[k].answer.code = last.answer.code
                    /\ validations[k].answer.valid = last.answer.valid
                    /\ validations[k].answer.total_hospitals
                          = last.answer.total_hospitals
                    /\ validations[k].answer.exceeds_limit
                          = last.answer.exceeds_limit]_vars

\* the same over-limit file validated twice, with a batch in the store
C13_Witness ==
    /\ Len(validations) = 2
    /\ validations[1].file = validations[2].file
    /\ validations[2].answer.exceeds_limit = Some(TRUE)
    /\ validations[2].answer.total_hospitals = Some(MAX_CSV_SIZE + 1)
    /\ 1 \in DOMAIN batch_data
    /\ Len(calls) > 0

\* C14: a status query for an id the store does not hold is answered 404,
\* a query for an id it holds is answered 200 with the status, total and
\* counters the entry has at that moment, and a query changes neither the
\* store nor the outcome lists.
C14_StatusQueryReadsStore ==
    [][status_response' # status_response =>
        /\ UNCHANGED <<batch_data, heap, calls, ids>>
        /\ LET r == status_response'
           IN  IF r.batch_id \in DOMAIN batch_data
               THEN /\ r.code = 200
                    /\ r.status = batch_data[r.batch_id].status
                    /\ r.total_hospitals = batch_data[r.batch_id].total_hospitals
                    /\ r.processed_hospitals
                          = batch_data[r.batch_id].processed_hospitals
                    /\ r.failed_hospitals = batch_data[r.batch_id].failed_hospitals
               ELSE r.code = 404
      ]_vars

\* an unknown id was asked for while the store held a batch in progress
C14_Witness ==
    /\ status_response.code = 404
    /\ status_response.batch_id \notin DOMAIN batch_data
    /\ 1 \in DOMAIN batch_data
    /\ batch_data[1].status = "processing"
    /\ batch_data[1].processed_hospitals = 1

\* C15: the create calls of a batch are for rows 1, 2, 3, ... in this order,
\* one call per row and never more calls than records; a finished batch has
\* had one create call for each record; a batch has at most one activate
\* call, made after the create call of its last record.
C15_CallsInOrder ==
    \A b \in DOMAIN batch_data :
        LET creates == CallsOf(b, "create")
            activates == CallsOf(b, "activate")
        IN  /\ \A k \in creates :
                  calls[k].row = Cardinality({j \in creates : j <= k})
            /\ Cardinality(creates) <= batch_data[b].total_hospitals
            /\ Terminal(b) => Cardinality(creates) = batch_data[b].total_hospitals
            /\ Cardinality(activates) <= 1
            /\ \A a \in activates :
                  /\ Cardinality(creates) = batch_data[b].total_hospitals
                  /\ \A k \in creates : k < a

\* a batch of two records is finished: create for row 1, create for row 2,
\* then activate
C15_Witness ==
    /\ 1 \in DOMAIN batch_data
    /\ Terminal(1)
    /\ Len(calls) = 3
    /\ calls[1].op = "create" /\ calls[1].row = 1
    /\ calls[2].op = "create" /\ calls[2].row = 2
    /\ calls[3].op = "activate"

\* C16: the outcomes an entry shows only grow at the end: an outcome that is
\* there keeps its position, row, name, hospital_id and error_message; its
\* status changes only from created to created_and_activated, only in the
\* activation step and only after an activate call of the batch succeeded.
C16_OutcomesAppendOnly ==
    [][\A b \in DOMAIN batch_data :
          /\ b \in DOMAIN batch_data'
          /\ LET old == heap[batch_data[b].results]
                 new == heap'[batch_data'[b].results]
             IN  /\ Len(new) >= Len(old)
                 /\ \A k \in 1..Len(old) :
                       /\ new[k].row = old[k].row
                       /\ new[k].name = old[k].name
                       /\ new[k].hospital_id = old[k].hospital_id
                       /\ new[k].error_message = old[k].error_message
                       /\ new[k].status # old[k].status =>
                             /\ old[k].status = "created"
                             /\ new[k].status = "created_and_activated"
                             /\ pc = "upgrade"
                             /\ \E a \in CallsOf(b, "activate") : calls[a].ok
      ]_vars

\* the activation step has upgraded the first of two outcomes of the entry
C16_Witness ==
    /\ pc = "upgrade"
    /\ 1 \in DOMAIN batch_data
    /\ Len(Outcomes(1)) = 2
    /\ Outcomes(1)[1].status = "created_and_activated"
    /\ Outcomes(1)[2].status = "created"

\* C17: in every outcome of every entry, hospital_id is present exactly when
\* the status is created or created_and_activated, and error_message is
\* present exactly when the status is failed.
C17_IdIffCreated ==
    \A b \in DOMAIN batch_data :
        \A k \in 1..Len(Outcomes(b)) :
            LET o == Outcomes(b)[k]
            IN  /\ o.hospital_id # None
                      <=> o.status \in {"created", "created_and_activated"}
                /\ o.error_message # None <=> o.status = "failed"

\* C18: an entry is never removed, and an entry whose status is completed or
\* partial_failure never changes again, nor do its outcomes; a status query
\* that follows one which reported a terminal status for the same batch
\* gives the same answer.
C18_TerminalIsFinal ==
    [][/\ \A b \in DOMAIN batch_data :
            /\ b \in DOMAIN batch_data'
            /\ Terminal(b) =>
                  /\ batch_data'[b] = batch_data[b]
                  /\ heap'[batch_data'[b].results] = heap[batch_data[b].results]
       /\ (/\ status_response.code = 200
           /\ status_response.status \in {"completed", "partial_failure"}
           /\ status_response'.batch_id = status_response.batch_id) =>
              status_response' = status_response
      ]_vars

\* a status query reported the finished batch, its summary was returned and
\* a later upload was rejected; the entry is as it was reported
C18_Witness ==
    /\ 1 \in DOMAIN batch_data
    /\ Terminal(1)
    /\ pc = "idle"
    /\ response.code = 400
    /\ status_response.code = 200
    /\ status_response.batch_id = 1
    /\ status_response.status = batch_data[1].status
    /\ Len(Outcomes(1)) = 2

\* C19: an entry that shows an outcome with status created_and_activated has
\* batch_activated true and a terminal status.
C19_ActivationVisibleAtOnce ==
    \A b \in DOMAIN batch_data :
        (\E k \in 1..Len(Outcomes(b)) :
              Outcomes(b)[k].status = "created_and_activated") =>
           /\ batch_data[b].batch_activated = Some(TRUE)
           /\ Terminal(b)

====
